---- MODULE Spec2Model ----
(***************************************************************************)
(* Model of src/windows/service.c of stubby: the Windows service glue.     *)
(*                                                                         *)
(* One machine is modelled.  Its persistent state is the event-log         *)
(* registry key of the service and the service registration in the         *)
(* service manager's database.  Command-line processes are run one after   *)
(* another (windows_service_command); the "service" command connects to    *)
(* the service control dispatcher, which runs SvcMain on a service thread  *)
(* and calls SvcCtrlHandler on the dispatcher (main) thread.  The two      *)
(* threads interleave statement by statement; every call of an OS or       *)
(* engine function that can fail chooses its outcome nondeterministically. *)
(*                                                                         *)
(* Three specifications share the variables: Spec starts from a clean      *)
(* machine, StartSpec from a machine with the service installed (so that   *)
(* the start command can succeed), and LogSpec runs the event-log reporter *)
(* (report_vlog, report_verror) inside a service that is starting.         *)
(***************************************************************************)
EXTENDS Integers, Sequences, FiniteSets, TLC

\* ------------------------------------------------------------------ bounds
\* Number of command-line processes run one after another.
MaxCommands == 2
\* Number of control requests the service manager delivers to one service.
MaxControls == 2
\* Number of engine iterations (run_once) explored in one service run.
MaxIter == 2
\* Number of log callbacks delivered to report_verror in one run.
MaxMessages == 2

\* --------------------------------------------------------------- variables
VARIABLES
    \* persistent state of the machine
    regKey,            \* EventLog\Application\Stubby exists
    regValues,         \* the values stored under that key: name -> value
    serviceRegistered, \* the service manager's database has the service
    serviceDescribed,  \* ... and its description has been set
    history,           \* the commands that have terminated, oldest first
    \* the command-line process (main thread)
    arg,               \* the command token given to windows_service_command
    loglevel,          \* the log level given to windows_service_command
    startRequest,      \* the start request the service manager holds for the
                       \* service, << [args, loglevel] >>, or <<>> for none:
                       \* its arguments and the log level it was made for
    lpszArgv,          \* the arguments SvcMain was called with (dwArgc many)
    startedLevel,      \* << the log level of the start request this service
                       \* was started by >>, or <<>>
    getdns_logging,    \* << level given to stubby_set_getdns_logging >>, or <<>>
    \* report_verror
    level,             \* the severity the log callback came with
    lpc,               \* position inside report_verror, or "idle"
    hEventSource,      \* "NULL" or "hSource"
    sourcesOpen,       \* event sources registered and not yet deregistered
    eventLog,          \* the records written by ReportEvent, oldest first
    nMessages,         \* calls of report_verror so far
    cpc,               \* position of the main thread
    exitStatus,        \* "none" | "EXIT_SUCCESS" | "EXIT_FAILURE"
    stderr,            \* lines written to standard error
    stdout,            \* lines written to standard output
    handles,           \* handles the command currently holds open
    entered,           \* the Svc* command functions that have been called
    actionReturned,    \* the command function returned to the dispatcher
    osCalls,           \* OS calls made so far (service manager, registry, ..)
    osFailed,          \* OS calls that have failed so far
    \* the service thread (SvcMain / SvcInit) and the globals it shares
    spc,               \* position of the service thread
    gSvcStatusHandle,  \* TRUE once RegisterServiceCtrlHandler has succeeded
    gSvcStatus,        \* the global SERVICE_STATUS record
    dwCheckPoint,      \* the static counter of ReportSvcStatus
    ghSvcStopEvent,    \* "NULL" or "hEvent"
    stopEvent,         \* the event object: [state, signaled]
    context,           \* "NULL" | "live" | "destroyed"
    config,            \* "none" | "init" | "released"
    more,              \* SvcInit's local flag
    validate_dnssec,   \* SvcInit's local, set by read_config
    dnssec_validation, \* the global of the same meaning
    listenFlag,        \* the flag server_listen was called with
    lastWait,          \* value of the last WaitForSingleObject
    iterations,        \* run_once calls so far
    failure,           \* the startup checkpoint that failed, or "none"
    reports,           \* the records passed to SetServiceStatus, in order
    teardown,          \* teardown steps performed: <<[op, by]>>
    \* the control handler (dispatcher thread)
    hpc,               \* position inside SvcCtrlHandler, or "idle"
    dwCtrl,            \* the control code being handled
    nControls,         \* control requests delivered so far
    setEvents          \* SetEvent calls made: <<[handle, object]>>

startVars == <<loglevel, startRequest, lpszArgv, startedLevel, getdns_logging>>
logVars == <<level, lpc, hEventSource, sourcesOpen, eventLog, nMessages>>
persistVars == <<regKey, regValues, serviceRegistered, serviceDescribed, history>>
cmdVars == <<arg, cpc, exitStatus, stderr, stdout, handles, entered,
             actionReturned, osCalls, osFailed>>
statusVars == <<gSvcStatus, dwCheckPoint, reports>>
eventVars == <<ghSvcStopEvent, stopEvent>>
engineVars == <<context, config, validate_dnssec, dnssec_validation, listenFlag>>
loopVars == <<more, lastWait, iterations>>
svcVars == <<spc, gSvcStatusHandle, statusVars, eventVars, engineVars, loopVars,
             failure, teardown>>
hdlVars == <<hpc, dwCtrl, nControls, setEvents>>
vars == <<persistVars, cmdVars, startVars, logVars, svcVars, hdlVars>>

\* ------------------------------------------------------------- text helpers
\* A string is a sequence of one-character strings.
UpperCase == <<"A","B","C","D","E","F","G","H","I","J","K","L","M",
               "N","O","P","Q","R","S","T","U","V","W","X","Y","Z">>
LowerCase == <<"a","b","c","d","e","f","g","h","i","j","k","l","m",
               "n","o","p","q","r","s","t","u","v","w","x","y","z">>

\* The lower-case letter of each upper-case letter.
LowerOf ==
    [c \in {UpperCase[i] : i \in 1..Len(UpperCase)} |->
        LowerCase[CHOOSE i \in 1..Len(UpperCase) : UpperCase[i] = c]]

CharLower(c) == IF c \in DOMAIN LowerOf THEN LowerOf[c] ELSE c

\* lstrcmpi, as far as the dispatcher uses it: 0 when the strings are equal
\* ignoring case, non-zero otherwise.
lstrcmpi_CaseSensitive(a, b) == IF a = b THEN 0 ELSE 1

lstrcmpi(a, b) ==
    IF /\ Len(a) = Len(b)
       /\ \A i \in 1..Len(a) : CharLower(a[i]) = CharLower(b[i])
    THEN 0 ELSE 1

T_install == <<"i","n","s","t","a","l","l">>
T_remove == <<"r","e","m","o","v","e">>
T_service == <<"s","e","r","v","i","c","e">>
T_start == <<"s","t","a","r","t">>
T_stop == <<"s","t","o","p">>

\* The command tokens tried: the five commands, case variants, unknown ones.
CommandTokens ==
    { T_install, <<"I","N","S","T","A","L","L">>,
      T_remove, <<"R","e","m","o","v","e">>,
      T_service,
      T_start,
      T_stop, <<"s","t","O","P">>,
      <<"i","n","s","t","a","l">>, <<"s","t","o","p","s">> }

\* ------------------------------------------- the log level of a start request
SVCNAME == "Stubby"

\* The log levels tried with the start command: the severities 0 and 7, the
\* other digits' end 9, and values that are not a digit.
LogLevels == {-1, 0, 7, 9, 10, 80}

\* The character '0'.
CharZero == 48

\* A TCHAR is a char here (the file hands char buffers to the TCHAR
\* interfaces), a signed 8-bit value: the value an int is converted to.
TCHAR(n) == ((n + 128) % 256) - 128

\* SvcStart: loglevelstr[0] = '0' + loglevel; loglevelstr[1] = '\0';
loglevelstr_Raw(l) == << TCHAR(l), 0 >>

loglevelstr(l) == << TCHAR(CharZero + l), 0 >>

\* The string held in a two-character buffer: its characters before the NUL.
CString(buf) == IF buf[1] = 0 THEN <<>> ELSE << buf[1] >>

\* SvcStart: LPCTSTR args[2] = { SVCNAME, loglevelstr };
StartArgs(l) == << SVCNAME, CString(loglevelstr(l)) >>

\* SvcInit: lpszArgv[1][0] - '0'; the first character of an empty string is
\* its NUL.
ArgLogLevel(argv) ==
    (IF argv[2] = <<>> THEN 0 ELSE argv[2][1]) - CharZero

\* ------------------------------------------------- the persistent registry
NoValue == "<absent>"
ModulePath == "C:\\stubby\\stubby.exe"

\* What createRegistryEntries writes, in order: value name, value, and the
\* operation named in the diagnostic when the write fails.
RegistryValues ==
    << [name |-> "EventMessageFile",    value |-> ModulePath, oper |-> "Set EventMessageFile"],
       [name |-> "CategoryMessageFile", value |-> ModulePath, oper |-> "Set CategoryMessageFile"],
       [name |-> "TypesSupported",      value |-> "7",        oper |-> "Set TypesSupported"],
       [name |-> "CategoryCount",       value |-> "1",        oper |-> "Set TypesSupported"] >>

ValueNames == { RegistryValues[i].name : i \in 1..Len(RegistryValues) }
NoValues == [n \in ValueNames |-> NoValue]

\* ------------------------------------------------------- the status record
ZeroStatus ==
    [ dwServiceType |-> "0", dwCurrentState |-> "0", dwControlsAccepted |-> {},
      dwWin32ExitCode |-> 0, dwServiceSpecificExitCode |-> 0,
      dwCheckPoint |-> 0, dwWaitHint |-> 0 ]

\* ReportSvcStatus: the controls advertised for a state.
ControlsAcceptedFor_Always(dwCurrentState) == {"SERVICE_ACCEPT_STOP"}

ControlsAcceptedFor(dwCurrentState) ==
    IF dwCurrentState = "SERVICE_START_PENDING" THEN {} ELSE {"SERVICE_ACCEPT_STOP"}

\* ReportSvcStatus: the checkpoint stored in the record, given the counter.
CheckPointFor(dwCurrentState, counter) ==
    IF dwCurrentState \in {"SERVICE_RUNNING", "SERVICE_STOPPED"} THEN 0 ELSE counter

\* ReportSvcStatus: the static counter after the call (dwCheckPoint++ is
\* evaluated only in the else branch).
CounterAfter_NoIncrement(dwCurrentState, counter) == counter

CounterAfter(dwCurrentState, counter) ==
    IF dwCurrentState \in {"SERVICE_RUNNING", "SERVICE_STOPPED"}
    THEN counter ELSE counter + 1

\* ReportSvcStatus: the record after the assignments of the function, given
\* the record before and the static counter.
StatusAfterReport(status, dwCurrentState, dwWin32ExitCode, dwWaitHint, counter) ==
    [status EXCEPT
        !.dwCurrentState = dwCurrentState,
        !.dwWin32ExitCode = dwWin32ExitCode,
        !.dwWaitHint = dwWaitHint,
        !.dwControlsAccepted = ControlsAcceptedFor(dwCurrentState),
        !.dwCheckPoint = CheckPointFor(dwCurrentState, counter)]

\* ReportSvcStatus(dwCurrentState, dwWin32ExitCode, dwWaitHint), called by
\* thread `by` when the global record is `status`.  The function has no
\* blocking point: a call is one step, and calls of the two threads take
\* effect in either order.  The record handed to SetServiceStatus is
\* appended to reports.
ReportSvcStatus(status, dwCurrentState, dwWin32ExitCode, dwWaitHint, by) ==
    /\ gSvcStatus' = StatusAfterReport(status, dwCurrentState, dwWin32ExitCode,
                                       dwWaitHint, dwCheckPoint)
    /\ dwCheckPoint' = CounterAfter(dwCurrentState, dwCheckPoint)
    /\ reports' = Append(reports, [status |-> gSvcStatus', by |-> by])

\* What the service manager has been told.
ScmSawStopped ==
    \E i \in 1..Len(reports) : reports[i].status.dwCurrentState = "SERVICE_STOPPED"

ScmAcceptsStop ==
    /\ reports # <<>>
    /\ "SERVICE_ACCEPT_STOP" \in reports[Len(reports)].status.dwControlsAccepted
    /\ ~ScmSawStopped

\* The service and its handler run while the main thread is inside
\* StartServiceCtrlDispatcher.
InDispatcher == cpc = "dispatcher"

\* ------------------------------------------------------ the service thread
\* SvcMain: register the control handler.
SvcMain_Register ==
    /\ InDispatcher /\ spc = "SvcMain"
    /\ \E ok \in BOOLEAN :
         /\ osCalls' = osCalls \cup {"RegisterServiceCtrlHandler"}
         /\ IF ok
            THEN /\ gSvcStatusHandle' = TRUE
                 /\ spc' = "L545"
                 /\ UNCHANGED <<osFailed, failure>>
            ELSE /\ gSvcStatusHandle' = FALSE
                 /\ osFailed' = osFailed \cup {"RegisterServiceCtrlHandler"}
                 /\ failure' = "register"
                 /\ spc' = "returned"
    /\ UNCHANGED <<persistVars, arg, startVars, logVars, cpc, exitStatus, stderr, stdout, handles,
                   entered, actionReturned, statusVars, eventVars, engineVars,
                   loopVars, teardown, hdlVars>>

\* The service thread reports a status and moves on to `next`.
SvcReportStep(dwCurrentState, dwWin32ExitCode, dwWaitHint, next) ==
    /\ InDispatcher
    /\ ReportSvcStatus(gSvcStatus, dwCurrentState, dwWin32ExitCode, dwWaitHint,
                       "service")
    /\ spc' = next
    /\ UNCHANGED <<persistVars, cmdVars, startVars, logVars, gSvcStatusHandle, eventVars, engineVars,
                   loopVars, failure, teardown, hdlVars>>

\* SvcMain: set the service type and the specific exit code, then the
\* first START_PENDING report; SvcInit is entered.
SvcMain_ReportStartPending ==
    /\ InDispatcher /\ spc = "L545"
    /\ ReportSvcStatus([gSvcStatus EXCEPT
                            !.dwServiceType = "SERVICE_WIN32_OWN_PROCESS",
                            !.dwServiceSpecificExitCode = 0],
                       "SERVICE_START_PENDING", 0, 3000, "service")
    /\ spc' = "L560"
    /\ UNCHANGED <<persistVars, cmdVars, startVars, logVars, gSvcStatusHandle, eventVars, engineVars,
                   loopVars, failure, teardown, hdlVars>>

\* SvcInit: create the stop event (manual reset, not signaled).
SvcInit_CreateEvent_Signaled ==
    /\ InDispatcher /\ spc = "L560"
    /\ \E ok \in BOOLEAN :
         /\ osCalls' = osCalls \cup {"CreateEvent"}
         /\ IF ok
            THEN /\ ghSvcStopEvent' = "hEvent"
                 /\ stopEvent' = [state |-> "open", signaled |-> TRUE]
                 /\ spc' = "L572"
                 /\ UNCHANGED <<osFailed, failure>>
            ELSE /\ ghSvcStopEvent' = "NULL"
                 /\ osFailed' = osFailed \cup {"CreateEvent"}
                 /\ failure' = "stop_event"
                 /\ spc' = "L568"
                 /\ UNCHANGED stopEvent
    /\ UNCHANGED <<persistVars, arg, startVars, logVars, cpc, exitStatus, stderr, stdout, handles,
                   entered, actionReturned, gSvcStatusHandle, statusVars,
                   engineVars, loopVars, teardown, hdlVars>>

SvcInit_CreateEvent ==
    /\ InDispatcher /\ spc = "L560"
    /\ \E ok \in BOOLEAN :
         /\ osCalls' = osCalls \cup {"CreateEvent"}
         /\ IF ok
            THEN /\ ghSvcStopEvent' = "hEvent"
                 /\ stopEvent' = [state |-> "open", signaled |-> FALSE]
                 /\ spc' = "L572"
                 /\ UNCHANGED <<osFailed, failure>>
            ELSE /\ ghSvcStopEvent' = "NULL"
                 /\ osFailed' = osFailed \cup {"CreateEvent"}
                 /\ failure' = "stop_event"
                 /\ spc' = "L568"
                 /\ UNCHANGED stopEvent
    /\ UNCHANGED <<persistVars, arg, startVars, logVars, cpc, exitStatus, stderr, stdout, handles,
                   entered, actionReturned, gSvcStatusHandle, statusVars,
                   engineVars, loopVars, teardown, hdlVars>>

SvcInit_CreateEventFailed ==
    /\ spc = "L568"
    /\ SvcReportStep("SERVICE_STOPPED", 1, 0, "returned")

SvcInit_ReportContextCheckpoint ==
    /\ spc = "L572"
    /\ SvcReportStep("SERVICE_START_PENDING", 0, 1000, "L573")

\* A call into the resolution engine that succeeds or fails.
EngineStep(okNext, failed, failNext) ==
    /\ InDispatcher
    /\ \E ok \in BOOLEAN :
         IF ok THEN spc' = okNext /\ UNCHANGED failure
               ELSE spc' = failNext /\ failure' = failed

SvcInit_ContextCreate ==
    /\ spc = "L573"
    /\ EngineStep("L581", "context", "L575")
    /\ context' = IF spc' = "L581" THEN "live" ELSE "NULL"
    /\ UNCHANGED <<persistVars, cmdVars, startVars, logVars, gSvcStatusHandle, statusVars, eventVars,
                   config, validate_dnssec, dnssec_validation, listenFlag,
                   loopVars, teardown, hdlVars>>

SvcInit_ContextFailed_Report ==
    /\ spc = "L575"
    /\ SvcReportStep("SERVICE_STOPPED", 1, 0, "L576")

\* CloseHandle(ghSvcStopEvent) by the service thread.
CloseStopEvent(next) ==
    /\ InDispatcher
    /\ stopEvent' = [stopEvent EXCEPT !.state = "closed"]
    /\ teardown' = Append(teardown, [op |-> "CloseHandle", by |-> "service"])
    /\ spc' = next
    /\ UNCHANGED <<persistVars, cmdVars, startVars, logVars, gSvcStatusHandle, statusVars,
                   ghSvcStopEvent, engineVars, loopVars, failure, hdlVars>>

NullStopEvent_KeepsHandle ==
    /\ InDispatcher
    /\ spc' = "returned"
    /\ UNCHANGED <<persistVars, cmdVars, startVars, logVars, gSvcStatusHandle, statusVars, eventVars,
                   engineVars, loopVars, failure, teardown, hdlVars>>


\* ghSvcStopEvent = NULL, then return from SvcInit and SvcMain.
NullStopEvent ==
    /\ InDispatcher
    /\ ghSvcStopEvent' = "NULL"
    /\ spc' = "returned"
    /\ UNCHANGED <<persistVars, cmdVars, startVars, logVars, gSvcStatusHandle, statusVars, stopEvent,
                   engineVars, loopVars, failure, teardown, hdlVars>>

SvcInit_ContextFailed_CloseHandle ==
    /\ spc = "L576"
    /\ CloseStopEvent("L577")

SvcInit_ContextFailed_Return ==
    /\ spc = "L577"
    /\ NullStopEvent

\* stubby_set_getdns_logging (when an argument is present) and init_config.
SvcInit_InitConfig ==
    /\ InDispatcher /\ spc = "L581"
    /\ getdns_logging' = IF Len(lpszArgv) > 1 THEN << ArgLogLevel(lpszArgv) >>
                                              ELSE getdns_logging
    /\ config' = "init"
    /\ spc' = "L585"
    /\ UNCHANGED <<persistVars, cmdVars, loglevel, startRequest, lpszArgv,
                   startedLevel, logVars, gSvcStatusHandle, statusVars, eventVars,
                   context, validate_dnssec, dnssec_validation, listenFlag,
                   loopVars, failure, teardown, hdlVars>>

SvcInit_ReportConfigCheckpoint ==
    /\ spc = "L585"
    /\ SvcReportStep("SERVICE_START_PENDING", 0, 1010, "L586")

\* read_config(context, NULL, &validate_dnssec)
SvcInit_ReadConfig ==
    /\ spc = "L586"
    /\ EngineStep("L590", "config", "L587")
    /\ IF spc' = "L590"
       THEN \E v \in {0, 1} : validate_dnssec' = v
       ELSE UNCHANGED validate_dnssec
    /\ UNCHANGED <<persistVars, cmdVars, startVars, logVars, gSvcStatusHandle, statusVars, eventVars,
                   context, config, dnssec_validation, listenFlag,
                   loopVars, teardown, hdlVars>>

SvcInit_ReadConfigFailed_Direct ==
    /\ spc = "L587"
    /\ SvcReportStep("SERVICE_STOPPED", 1, 0, "returned")

SvcInit_ReadConfigFailed ==
    /\ spc = "L587"
    /\ SvcReportStep("SERVICE_STOPPED", 1, 0, "L631")

SvcInit_ReportListenCheckpoint_StaleHint ==
    /\ spc = "L590"
    /\ SvcReportStep("SERVICE_START_PENDING", 0, 1010, "L591")

SvcInit_ReportListenCheckpoint ==
    /\ spc = "L590"
    /\ SvcReportStep("SERVICE_START_PENDING", 0, 1020, "L591")

\* server_listen(context, dnssec_validation)
SvcInit_ServerListen ==
    /\ spc = "L591"
    /\ EngineStep("L596", "listen", "L592")
    /\ listenFlag' = dnssec_validation
    /\ UNCHANGED <<persistVars, cmdVars, startVars, logVars, gSvcStatusHandle, statusVars, eventVars,
                   context, config, validate_dnssec, dnssec_validation,
                   loopVars, teardown, hdlVars>>

SvcInit_ServerListenFailed ==
    /\ spc = "L592"
    /\ SvcReportStep("SERVICE_STOPPED", 1, 0, "L631")

SvcInit_ReportEventloopCheckpoint ==
    /\ spc = "L596"
    /\ SvcReportStep("SERVICE_START_PENDING", 0, 1030, "L597")

\* getdns_context_get_eventloop(context, &eventloop)
SvcInit_GetEventloop ==
    /\ spc = "L597"
    /\ EngineStep("L603", "eventloop", "L599")
    /\ UNCHANGED <<persistVars, cmdVars, startVars, logVars, gSvcStatusHandle, statusVars, eventVars,
                   engineVars, loopVars, teardown, hdlVars>>

SvcInit_GetEventloopFailed ==
    /\ spc = "L599"
    /\ SvcReportStep("SERVICE_STOPPED", 1, 0, "L631")

SvcInit_ReportRunning ==
    /\ spc = "L603"
    /\ SvcReportStep("SERVICE_RUNNING", 0, 0, "L607")

\* ---------------------------------------------------------- the run loop
\* WaitForSingleObject(ghSvcStopEvent, 0): the values it can return.
WaitForSingleObject(event) ==
    {"WAIT_FAILED"} \cup
    (IF event.state = "open" /\ event.signaled
     THEN {"WAIT_OBJECT_0"} ELSE {"WAIT_TIMEOUT"})

\* The switch of the run loop: the value of `more` after it.
MoreAfterWait(wait, m) ==
    IF wait = "WAIT_OBJECT_0" THEN m      \* case WAIT_OBJECT_0: break;
    ELSE IF wait = "WAIT_FAILED" THEN 0   \* case WAIT_FAILED: more = 0;
    ELSE 0                                \* default: more = 0;

\* One poll of the stop event, the switch, and `if ( !more ) break;`.
SvcInit_Poll ==
    /\ InDispatcher /\ spc = "L607"
    /\ \E wait \in WaitForSingleObject(stopEvent) :
         /\ lastWait' = wait
         /\ more' = MoreAfterWait(wait, more)
         /\ osCalls' = osCalls \cup {"WaitForSingleObject"}
         /\ osFailed' = IF wait = "WAIT_FAILED"
                        THEN osFailed \cup {"WaitForSingleObject"} ELSE osFailed
    /\ spc' = IF more' = 0 THEN "L628" ELSE "L626"
    /\ UNCHANGED <<persistVars, arg, startVars, logVars, cpc, exitStatus, stderr, stdout, handles,
                   entered, actionReturned, gSvcStatusHandle, statusVars,
                   eventVars, engineVars, iterations, failure, teardown, hdlVars>>

\* eventloop->vmt->run_once(eventloop, 1)
SvcInit_RunOnce ==
    /\ InDispatcher /\ spc = "L626"
    /\ iterations < MaxIter
    /\ iterations' = iterations + 1
    /\ spc' = "L607"
    /\ UNCHANGED <<persistVars, cmdVars, startVars, logVars, gSvcStatusHandle, statusVars, eventVars,
                   engineVars, more, lastWait, failure, teardown, hdlVars>>

SvcInit_ReportStopped ==
    /\ spc = "L628"
    /\ SvcReportStep("SERVICE_STOPPED", 0, 0, "L631")

\* ------------------------------------------------------------ tidy_and_exit
SvcInit_DestroyContext ==
    /\ InDispatcher /\ spc = "L631"
    /\ context' = "destroyed"
    /\ teardown' = Append(teardown, [op |-> "getdns_context_destroy", by |-> "service"])
    /\ spc' = "L632"
    /\ UNCHANGED <<persistVars, cmdVars, startVars, logVars, gSvcStatusHandle, statusVars, eventVars,
                   config, validate_dnssec, dnssec_validation, listenFlag,
                   loopVars, failure, hdlVars>>

SvcInit_DeleteConfig ==
    /\ InDispatcher /\ spc = "L632"
    /\ config' = "released"
    /\ teardown' = Append(teardown, [op |-> "delete_config", by |-> "service"])
    /\ spc' = "L633"
    /\ UNCHANGED <<persistVars, cmdVars, startVars, logVars, gSvcStatusHandle, statusVars, eventVars,
                   context, validate_dnssec, dnssec_validation, listenFlag,
                   loopVars, failure, hdlVars>>

SvcInit_CloseHandle ==
    /\ spc = "L633"
    /\ CloseStopEvent("L634")

SvcInit_Return ==
    /\ spc = "L634"
    /\ NullStopEvent

\* ------------------------------------------------------ the control handler
ControlCodes ==
    {"SERVICE_CONTROL_STOP", "SERVICE_CONTROL_INTERROGATE", "SERVICE_CONTROL_PAUSE"}

\* The service manager calls SvcCtrlHandler(c) on the dispatcher thread, one
\* call at a time.  It sends STOP only to a service that advertises it.
DeliverControl ==
    /\ InDispatcher /\ gSvcStatusHandle /\ hpc = "idle"
    /\ nControls < MaxControls
    /\ \E c \in ControlCodes :
         /\ c = "SERVICE_CONTROL_STOP" => ScmAcceptsStop
         /\ dwCtrl' = c
    /\ hpc' = "switch"
    /\ nControls' = nControls + 1
    /\ UNCHANGED <<persistVars, cmdVars, startVars, logVars, svcVars, setEvents>>

\* case SERVICE_CONTROL_STOP: ReportSvcStatus(SERVICE_STOP_PENDING, 0, 0);
SvcCtrlHandler_ReportStopPending ==
    /\ InDispatcher /\ hpc = "switch" /\ dwCtrl = "SERVICE_CONTROL_STOP"
    /\ ReportSvcStatus(gSvcStatus, "SERVICE_STOP_PENDING", 0, 0, "handler")
    /\ hpc' = "L665"
    /\ UNCHANGED <<persistVars, cmdVars, startVars, logVars, spc, gSvcStatusHandle, eventVars,
                   engineVars, loopVars, failure, teardown, dwCtrl, nControls,
                   setEvents>>

\* SetEvent(ghSvcStopEvent); break; return.  The call signals the event when
\* the global still names the open event object.
SvcCtrlHandler_SetEvent ==
    /\ InDispatcher /\ hpc = "L665"
    /\ setEvents' = Append(setEvents, [handle |-> ghSvcStopEvent,
                                       object |-> stopEvent.state])
    /\ stopEvent' = IF ghSvcStopEvent = "hEvent" /\ stopEvent.state = "open"
                    THEN [stopEvent EXCEPT !.signaled = TRUE]
                    ELSE stopEvent
    /\ hpc' = "idle" /\ dwCtrl' = "none"
    /\ UNCHANGED <<persistVars, cmdVars, startVars, logVars, spc, gSvcStatusHandle, statusVars,
                   ghSvcStopEvent, engineVars, loopVars, failure, teardown,
                   nControls>>

\* case SERVICE_CONTROL_INTERROGATE: break;  default: break;
SvcCtrlHandler_Other_Reports ==
    /\ InDispatcher /\ hpc = "switch" /\ dwCtrl # "SERVICE_CONTROL_STOP"
    /\ ReportSvcStatus(gSvcStatus, gSvcStatus.dwCurrentState, 0, 0, "handler")
    /\ hpc' = "idle" /\ dwCtrl' = "none"
    /\ UNCHANGED <<persistVars, cmdVars, startVars, logVars, spc, gSvcStatusHandle, eventVars,
                   engineVars, loopVars, failure, teardown, nControls,
                   setEvents>>

SvcCtrlHandler_Other ==
    /\ InDispatcher /\ hpc = "switch" /\ dwCtrl # "SERVICE_CONTROL_STOP"
    /\ hpc' = "idle" /\ dwCtrl' = "none"
    /\ UNCHANGED <<persistVars, cmdVars, startVars, logVars, svcVars, nControls, setEvents>>

\* --------------------------------------------------- command-line process
Clean == ~regKey /\ regValues = NoValues /\ ~serviceRegistered /\ ~serviceDescribed

\* exit(status): the process ends, its handles are closed by the system.
Exit(status) ==
    /\ cpc' = "exited"
    /\ exitStatus' = status
    /\ handles' = {}
    /\ history' = [history EXCEPT ![Len(history)].status = status]

\* winerr(operation, err): FormatMessage gives the text of the error or
\* fails; either way one line goes to stderr and the process exits.
winerr(operation) ==
    /\ \E formatted \in BOOLEAN :
         stderr' = Append(stderr,
                     [kind |-> "Error", text |-> operation,
                      detail |-> IF formatted THEN "message" ELSE "errno"])
    /\ Exit("EXIT_FAILURE")

\* winlasterr(operation) is winerr(operation, GetLastError()).
winlasterr(operation) == winerr(operation)

\* An OS call is recorded, with its outcome.
OsCall(name, ok) ==
    /\ osCalls' = osCalls \cup {name}
    /\ osFailed' = IF ok THEN osFailed ELSE osFailed \cup {name}

\* The main thread goes on to `next`, holding the handles hs.
Continue(next, hs) ==
    /\ cpc' = next
    /\ handles' = hs
    /\ UNCHANGED <<exitStatus, stderr, history>>

\* A command is started on the machine: a fresh process.
Launch ==
    /\ cpc \in {"none", "exited"}
    /\ Len(history) < MaxCommands
    /\ \E tok \in CommandTokens :
         /\ arg' = tok
         \* only SvcStart looks at the log level: the other commands are run
         \* with one value of it
         /\ \E l \in LogLevels :
              /\ (lstrcmpi(tok, T_start) # 0) => l = 0
              /\ loglevel' = l
    /\ lpszArgv' = <<>> /\ startedLevel' = <<>> /\ getdns_logging' = <<>>
    /\ history' = Append(history, [action |-> "pending", status |-> "none",
                                   cleanBefore |-> Clean])
    /\ cpc' = "L92"
    /\ exitStatus' = "none" /\ stderr' = <<>> /\ stdout' = <<>>
    /\ handles' = {} /\ entered' = {} /\ actionReturned' = FALSE
    /\ osCalls' = {} /\ osFailed' = {}
    /\ spc' = "none" /\ gSvcStatusHandle' = FALSE
    /\ gSvcStatus' = ZeroStatus /\ dwCheckPoint' = 1 /\ reports' = <<>>
    /\ ghSvcStopEvent' = "NULL"
    /\ stopEvent' = [state |-> "none", signaled |-> FALSE]
    /\ context' = "NULL" /\ config' = "none"
    /\ more' = 1 /\ validate_dnssec' = 0 /\ dnssec_validation' = 0
    /\ listenFlag' = 0 /\ lastWait' = "none" /\ iterations' = 0
    /\ failure' = "none" /\ teardown' = <<>>
    /\ hpc' = "idle" /\ dwCtrl' = "none" /\ nControls' = 0 /\ setEvents' = <<>>
    /\ UNCHANGED <<regKey, regValues, serviceRegistered, serviceDescribed,
                   startRequest, logVars>>

\* The if / else-if chain of windows_service_command.
CommandOf(a) ==
    IF lstrcmpi(a, T_install) = 0 THEN "install"
    ELSE IF lstrcmpi(a, T_remove) = 0 THEN "remove"
    ELSE IF lstrcmpi(a, T_service) = 0 THEN "service"
    ELSE IF lstrcmpi(a, T_start) = 0 THEN "start"
    ELSE IF lstrcmpi(a, T_stop) = 0 THEN "stop"
    ELSE "unknown"

\* First statement of each command function.
EntryOf(command) ==
    CASE command = "install" -> "L355"
      [] command = "remove"  -> "L405"
      [] command = "service" -> "L226"
      [] command = "start"   -> "L443"
      [] command = "stop"    -> "L493"

windows_service_command ==
    /\ cpc = "L92"
    /\ LET command == CommandOf(arg) IN
         IF command = "unknown"
         THEN /\ stderr' = Append(stderr,
                     [kind |-> "Unknown Windows option", text |-> arg,
                      detail |-> "token"])
              /\ cpc' = "exited"
              /\ exitStatus' = "EXIT_FAILURE"
              /\ history' = [history EXCEPT ![Len(history)].action = command,
                                            ![Len(history)].status = "EXIT_FAILURE"]
              /\ UNCHANGED entered
         ELSE /\ entered' = entered \cup {command}
              /\ cpc' = EntryOf(command)
              /\ history' = [history EXCEPT ![Len(history)].action = command]
              /\ UNCHANGED <<exitStatus, stderr>>
    /\ UNCHANGED <<regKey, regValues, serviceRegistered, serviceDescribed, arg, startVars, logVars,
                   stdout, handles, actionReturned, osCalls, osFailed,
                   svcVars, hdlVars>>

\* exit(EXIT_SUCCESS) at the end of windows_service_command.
windows_service_command_ExitSuccess ==
    /\ cpc = "L108"
    /\ Exit("EXIT_SUCCESS")
    /\ UNCHANGED <<regKey, regValues, serviceRegistered, serviceDescribed, arg, startVars, logVars,
                   stderr, stdout, entered, actionReturned, osCalls, osFailed,
                   svcVars, hdlVars>>

\* OpenSCManager and its check, as each of the four functions does it.
OpenSCManager(next) ==
    /\ \E ok \in BOOLEAN :
         /\ OsCall("OpenSCManager", ok)
         /\ IF ok THEN Continue(next, handles \cup {"schSCManager"})
                  ELSE winlasterr("Open service manager")
    /\ UNCHANGED <<regKey, regValues, serviceRegistered, serviceDescribed, arg, startVars, logVars,
                   stdout, entered, actionReturned, svcVars, hdlVars>>

\* OpenService and its check; the service must be registered to be opened.
OpenService(next) ==
    /\ \E ok \in (IF serviceRegistered THEN BOOLEAN ELSE {FALSE}) :
         /\ OsCall("OpenService", ok)
         /\ IF ok THEN Continue(next, handles \cup {"schService"})
                  ELSE winlasterr("Open service")
    /\ UNCHANGED <<regKey, regValues, serviceRegistered, serviceDescribed, arg, startVars, logVars,
                   stdout, entered, actionReturned, svcVars, hdlVars>>

\* ------------------------------------------------------------- SvcInstall
SvcInstall_GetModuleFileName_SkipRegistry ==
    /\ cpc = "L355"
    /\ \E ok \in BOOLEAN :
         /\ OsCall("GetModuleFileName", ok)
         /\ IF ok THEN Continue("L361", handles)
                  ELSE winlasterr("GetModuleFileName")
    /\ UNCHANGED <<regKey, regValues, serviceRegistered, serviceDescribed, arg, startVars, logVars,
                   stdout, entered, actionReturned, svcVars, hdlVars>>

SvcInstall_GetModuleFileName ==
    /\ cpc = "L355"
    /\ \E ok \in BOOLEAN :
         /\ OsCall("GetModuleFileName", ok)
         /\ IF ok THEN Continue("L239", handles)
                  ELSE winlasterr("GetModuleFileName")
    /\ UNCHANGED <<regKey, regValues, serviceRegistered, serviceDescribed, arg, startVars, logVars,
                   stdout, entered, actionReturned, svcVars, hdlVars>>

\* createRegistryEntries: RegCreateKeyEx creates the key or opens it.
createRegistryEntries_CreateKey ==
    /\ cpc = "L239"
    /\ \E ok \in BOOLEAN :
         /\ OsCall("RegCreateKeyEx", ok)
         /\ IF ok THEN /\ regKey' = TRUE
                       /\ Continue("L255", handles \cup {"hkey"})
                  ELSE /\ UNCHANGED regKey
                       /\ winerr("Create registry key")
    /\ UNCHANGED <<regValues, serviceRegistered, serviceDescribed, arg, startVars, logVars,
                   stdout, entered, actionReturned, svcVars, hdlVars>>

\* Position of the i-th RegSetValueEx of createRegistryEntries, and of the
\* statement after the i-th write.
SetValuePc(i) ==
    CASE i = 1 -> "L255" [] i = 2 -> "L269" [] i = 3 -> "L285"
      [] i = 4 -> "L300" [] OTHER -> "L361"

\* createRegistryEntries: the four RegSetValueEx calls; after the last one
\* RegCloseKey and return to SvcInstall.
createRegistryEntries_SetValue ==
    \E i \in 1..Len(RegistryValues) :
      /\ cpc = SetValuePc(i)
      /\ \E ok \in BOOLEAN :
           /\ OsCall("RegSetValueEx", ok)
           /\ IF ok
              THEN /\ regValues' = [regValues EXCEPT
                                      ![RegistryValues[i].name] = RegistryValues[i].value]
                   /\ Continue(SetValuePc(i + 1),
                               IF i = Len(RegistryValues) THEN handles \ {"hkey"}
                                                          ELSE handles)
              ELSE /\ UNCHANGED regValues
                   /\ winerr(RegistryValues[i].oper)
      /\ UNCHANGED <<regKey, serviceRegistered, serviceDescribed, arg, startVars, logVars,
                     stdout, entered, actionReturned, svcVars, hdlVars>>

SvcInstall_OpenSCManager ==
    /\ cpc = "L361"
    /\ OpenSCManager("L369")

\* CreateService fails when the service exists already.
SvcInstall_CreateService ==
    /\ cpc = "L369"
    /\ \E ok \in (IF serviceRegistered THEN {FALSE} ELSE BOOLEAN) :
         /\ OsCall("CreateService", ok)
         /\ IF ok THEN /\ serviceRegistered' = TRUE
                       /\ Continue("L390", handles \cup {"schService"})
                  ELSE /\ UNCHANGED serviceRegistered
                       /\ winlasterr("Create service")
    /\ UNCHANGED <<regKey, regValues, serviceDescribed, arg, startVars, logVars,
                   stdout, entered, actionReturned, svcVars, hdlVars>>

\* ChangeServiceConfig2 (its result is not looked at), printf, close, return.
SvcInstall_Describe ==
    /\ cpc = "L390"
    /\ \E ok \in BOOLEAN :
         /\ OsCall("ChangeServiceConfig2", ok)
         /\ serviceDescribed' = ok
    /\ stdout' = Append(stdout, "Service installed successfully")
    /\ actionReturned' = TRUE
    /\ Continue("L108", handles \ {"schService", "schSCManager"})
    /\ UNCHANGED <<regKey, regValues, serviceRegistered, arg, startVars, logVars, entered,
                   svcVars, hdlVars>>

\* -------------------------------------------------------------- SvcRemove
SvcRemove_OpenSCManager ==
    /\ cpc = "L405"
    /\ OpenSCManager("L413")

SvcRemove_OpenService ==
    /\ cpc = "L413"
    /\ OpenService("L424")

SvcRemove_DeleteService ==
    /\ cpc = "L424"
    /\ \E ok \in BOOLEAN :
         /\ OsCall("DeleteService", ok)
         /\ IF ok THEN /\ serviceRegistered' = FALSE
                       /\ serviceDescribed' = FALSE
                       /\ Continue("L322", handles \ {"schService", "schSCManager"})
                  ELSE /\ UNCHANGED <<serviceRegistered, serviceDescribed>>
                       /\ winlasterr("Delete service")
    /\ UNCHANGED <<regKey, regValues, arg, startVars, logVars, stdout, entered, actionReturned,
                   svcVars, hdlVars>>

\* deleteRegistryEntries: open the Application key.
deleteRegistryEntries_OpenParent ==
    /\ cpc = "L322"
    /\ \E ok \in BOOLEAN :
         /\ OsCall("RegCreateKeyEx", ok)
         /\ IF ok THEN Continue("L337", handles \cup {"hkey"})
                  ELSE winerr("Create registry key")
    /\ UNCHANGED <<regKey, regValues, serviceRegistered, serviceDescribed, arg, startVars, logVars,
                   stdout, entered, actionReturned, svcVars, hdlVars>>

\* deleteRegistryEntries: RegDeleteKey removes the key with its values (it
\* fails when there is no such key); then back in SvcRemove, printf, return.
deleteRegistryEntries_DeleteKey_KeepsKey ==
    /\ cpc = "L337"
    /\ \E ok \in (IF regKey THEN BOOLEAN ELSE {FALSE}) :
         /\ OsCall("RegDeleteKey", ok)
         /\ IF ok THEN /\ UNCHANGED <<regKey, regValues>>
                       /\ stdout' = Append(stdout, "Service removed successfully")
                       /\ actionReturned' = TRUE
                       /\ Continue("L108", handles \ {"hkey"})
                  ELSE /\ UNCHANGED <<regKey, regValues, stdout, actionReturned>>
                       /\ winerr("Delete registry key")
    /\ UNCHANGED <<serviceRegistered, serviceDescribed, arg, startVars, logVars, entered,
                   svcVars, hdlVars>>

deleteRegistryEntries_DeleteKey ==
    /\ cpc = "L337"
    /\ \E ok \in (IF regKey THEN BOOLEAN ELSE {FALSE}) :
         /\ OsCall("RegDeleteKey", ok)
         /\ IF ok THEN /\ regKey' = FALSE
                       /\ regValues' = NoValues
                       /\ stdout' = Append(stdout, "Service removed successfully")
                       /\ actionReturned' = TRUE
                       /\ Continue("L108", handles \ {"hkey"})
                  ELSE /\ UNCHANGED <<regKey, regValues, stdout, actionReturned>>
                       /\ winerr("Delete registry key")
    /\ UNCHANGED <<serviceRegistered, serviceDescribed, arg, startVars, logVars, entered,
                   svcVars, hdlVars>>

\* ------------------------------------------------------- SvcStart, SvcStop
SvcStart_OpenSCManager ==
    /\ cpc = "L443"
    /\ OpenSCManager("L451")

SvcStart_OpenService ==
    /\ cpc = "L451"
    /\ OpenService("L462")

\* The last call of SvcStart / SvcStop, its check, printf and return.
\* A start request that succeeds leaves its arguments with the service
\* manager (`request`); a stop request leaves what the manager holds.
ControlClientStep(call, operation, line, request) ==
    /\ \E ok \in BOOLEAN :
         /\ OsCall(call, ok)
         /\ IF ok THEN /\ stdout' = Append(stdout, line)
                       /\ actionReturned' = TRUE
                       /\ startRequest' = request
                       /\ Continue("L108", handles \ {"schService", "schSCManager"})
                  ELSE /\ UNCHANGED <<stdout, actionReturned, startRequest>>
                       /\ winlasterr(operation)
    /\ UNCHANGED <<regKey, regValues, serviceRegistered, serviceDescribed, arg,
                   loglevel, lpszArgv, startedLevel, getdns_logging, logVars,
                   entered, svcVars, hdlVars>>

SvcStart_StartService ==
    /\ cpc = "L462"
    /\ ControlClientStep("StartService", "Start service",
                         "Service started successfully",
                         << [args |-> StartArgs(loglevel), loglevel |-> loglevel] >>)

SvcStop_OpenSCManager ==
    /\ cpc = "L493"
    /\ OpenSCManager("L501")

SvcStop_OpenService ==
    /\ cpc = "L501"
    /\ OpenService("L512")

SvcStop_ControlService ==
    /\ cpc = "L512"
    /\ ControlClientStep("ControlService", "Stop service",
                         "Service stopped successfully", startRequest)

\* ------------------------------------------------------------- SvcService
\* StartServiceCtrlDispatcher: on failure report_winerr and return; on
\* success the dispatcher starts SvcMain on a service thread, with the
\* arguments of the start request the service manager holds, or with the
\* service name alone when the service was started without arguments.
SvcService_StartDispatcher ==
    /\ cpc = "L226"
    /\ \E ok \in BOOLEAN :
         /\ OsCall("StartServiceCtrlDispatcher", ok)
         /\ IF ok THEN /\ cpc' = "dispatcher"
                       /\ spc' = "SvcMain"
                       /\ lpszArgv' = IF startRequest # <<>>
                                      THEN startRequest[1].args
                                      ELSE << SVCNAME >>
                       /\ startedLevel' = IF startRequest # <<>>
                                          THEN << startRequest[1].loglevel >>
                                          ELSE <<>>
                       /\ startRequest' = <<>>
                       /\ UNCHANGED actionReturned
                  ELSE /\ cpc' = "L108"
                       /\ actionReturned' = TRUE
                       /\ UNCHANGED <<spc, lpszArgv, startedLevel, startRequest>>
    /\ UNCHANGED <<persistVars, arg, loglevel, getdns_logging, logVars, exitStatus, stderr, stdout, handles, entered,
                   gSvcStatusHandle, statusVars, eventVars, engineVars, loopVars,
                   failure, teardown, hdlVars>>

\* "This call returns when the service has stopped": the dispatcher returns
\* once the service manager has been told SERVICE_STOPPED and no handler
\* call is in progress on this thread; SvcService returns.
SvcService_DispatcherReturns ==
    /\ cpc = "dispatcher"
    /\ ScmSawStopped
    /\ hpc = "idle"
    /\ cpc' = "L108"
    /\ actionReturned' = TRUE
    /\ UNCHANGED <<persistVars, arg, startVars, logVars, exitStatus, stderr, stdout, handles, entered,
                   osCalls, osFailed, svcVars, hdlVars>>

\* ------------------------------------------------------------ report_verror
\* The severities of getdns_loglevel_type, and a value that is none of them.
Severities ==
    {"GETDNS_LOG_EMERG", "GETDNS_LOG_ALERT", "GETDNS_LOG_CRIT", "GETDNS_LOG_ERR",
     "GETDNS_LOG_WARNING", "GETDNS_LOG_NOTICE", "GETDNS_LOG_INFO",
     "GETDNS_LOG_DEBUG"}

LogLevelValues == Severities \cup {"unlisted"}

\* The switch of report_verror: eventType.
EventTypeOf(l) ==
    CASE l = "GETDNS_LOG_EMERG"   -> "EVENTLOG_ERROR_TYPE"
      [] l = "GETDNS_LOG_ALERT"   -> "EVENTLOG_ERROR_TYPE"
      [] l = "GETDNS_LOG_CRIT"    -> "EVENTLOG_ERROR_TYPE"
      [] l = "GETDNS_LOG_ERR"     -> "EVENTLOG_ERROR_TYPE"
      [] l = "GETDNS_LOG_WARNING" -> "EVENTLOG_WARNING_TYPE"
      [] l = "GETDNS_LOG_NOTICE"  -> "EVENTLOG_WARNING_TYPE"
      [] l = "GETDNS_LOG_INFO"    -> "EVENTLOG_INFORMATION_TYPE"
      [] OTHER                    -> "EVENTLOG_INFORMATION_TYPE"

\* The switch of report_verror: eventId, by the name of the identifier.
EventIdOf_CopyPaste(l) ==
    CASE l = "GETDNS_LOG_EMERG"   -> "SVC_EMERGENCY"
      [] l = "GETDNS_LOG_ALERT"   -> "SVC_ALERT"
      [] l = "GETDNS_LOG_CRIT"    -> "SVC_CRITICAL"
      [] l = "GETDNS_LOG_ERR"     -> "SVC_CRITICAL"
      [] l = "GETDNS_LOG_WARNING" -> "SVC_WARNING"
      [] l = "GETDNS_LOG_NOTICE"  -> "SVC_NOTICE"
      [] l = "GETDNS_LOG_INFO"    -> "SVC_INFO"
      [] OTHER                    -> "SVC_DEBUG"

EventIdOf(l) ==
    CASE l = "GETDNS_LOG_EMERG"   -> "SVC_EMERGENCY"
      [] l = "GETDNS_LOG_ALERT"   -> "SVC_ALERT"
      [] l = "GETDNS_LOG_CRIT"    -> "SVC_CRITICAL"
      [] l = "GETDNS_LOG_ERR"     -> "SVC_ERROR"
      [] l = "GETDNS_LOG_WARNING" -> "SVC_WARNING"
      [] l = "GETDNS_LOG_NOTICE"  -> "SVC_NOTICE"
      [] l = "GETDNS_LOG_INFO"    -> "SVC_INFO"
      [] OTHER                    -> "SVC_DEBUG"

\* The numbers behind the identifiers (windowsservice.h, generated from the
\* message file): one number per identifier, no two alike.
EventIdentifier ==
    [n \in {"SVC_EMERGENCY", "SVC_ALERT", "SVC_CRITICAL", "SVC_ERROR",
            "SVC_WARNING", "SVC_NOTICE", "SVC_INFO", "SVC_DEBUG"} |->
        CASE n = "SVC_EMERGENCY" -> 1 [] n = "SVC_ALERT" -> 2
          [] n = "SVC_CRITICAL"  -> 3 [] n = "SVC_ERROR" -> 4
          [] n = "SVC_WARNING"   -> 5 [] n = "SVC_NOTICE" -> 6
          [] n = "SVC_INFO"      -> 7 [] n = "SVC_DEBUG" -> 8]

\* The frame of report_verror: it touches nothing but its own locals, the
\* event sources and the event log.
LoggerFrame == <<persistVars, cmdVars, startVars, svcVars, hdlVars>>

\* report_vlog: the engine (or stubby_error and its like) calls the log
\* function installed by SvcMain, with a severity.
report_vlog ==
    /\ InDispatcher /\ spc \notin {"none", "SvcMain"}
    /\ lpc = "idle"
    /\ nMessages < MaxMessages
    /\ \E l \in LogLevelValues : level' = l
    /\ nMessages' = nMessages + 1
    /\ lpc' = "L119"
    /\ UNCHANGED <<hEventSource, sourcesOpen, eventLog, LoggerFrame>>

\* hEventSource = RegisterEventSource(NULL, SVCNAME); if NULL, return.
report_verror_RegisterEventSource_Fatal ==
    /\ lpc = "L119"
    /\ \E ok \in BOOLEAN :
         IF ok THEN /\ hEventSource' = "hSource"
                    /\ sourcesOpen' = sourcesOpen + 1
                    /\ lpc' = "L123"
                    /\ UNCHANGED <<cpc, exitStatus, handles, history>>
               ELSE /\ hEventSource' = "NULL"
                    /\ lpc' = "idle"
                    /\ UNCHANGED sourcesOpen
                    /\ Exit("EXIT_FAILURE")
    /\ UNCHANGED <<level, eventLog, nMessages,
                   regKey, regValues, serviceRegistered, serviceDescribed,
                   arg, stderr, stdout, entered, actionReturned, osCalls,
                   osFailed, startVars, svcVars, hdlVars>>

report_verror_RegisterEventSource ==
    /\ lpc = "L119"
    /\ \E ok \in BOOLEAN :
         IF ok THEN /\ hEventSource' = "hSource"
                    /\ sourcesOpen' = sourcesOpen + 1
                    /\ lpc' = "L123"
               ELSE /\ hEventSource' = "NULL"
                    /\ lpc' = "idle"
                    /\ UNCHANGED sourcesOpen
    /\ UNCHANGED <<level, eventLog, nMessages, LoggerFrame>>

\* The switch, vsnprintf and ReportEvent: a record of the chosen type and
\* identifier with two strings (the service name and the message) is
\* written, unless ReportEvent fails; its result is not looked at.
report_verror_ReportEvent ==
    /\ lpc = "L123"
    /\ \E ok \in BOOLEAN :
         eventLog' = IF ok
                     THEN Append(eventLog,
                            [ level |-> level,
                              wType |-> EventTypeOf(level),
                              dwEventID |-> EventIdentifier[EventIdOf(level)],
                              lpStrings |-> << SVCNAME, "buf" >> ])
                     ELSE eventLog
    /\ lpc' = "L182"
    /\ UNCHANGED <<level, hEventSource, sourcesOpen, nMessages, LoggerFrame>>

\* DeregisterEventSource(hEventSource); return.
report_verror_DeregisterEventSource ==
    /\ lpc = "L182"
    /\ sourcesOpen' = sourcesOpen - 1
    /\ lpc' = "idle"
    /\ UNCHANGED <<level, hEventSource, eventLog, nMessages, LoggerFrame>>


\* ------------------------------------------------------------ specification
\* No command has been run yet.
NoProcess ==
    /\ history = <<>>
    /\ arg = <<>> /\ cpc = "none"
    /\ loglevel = 0 /\ startRequest = <<>> /\ lpszArgv = <<>>
    /\ startedLevel = <<>> /\ getdns_logging = <<>>
    /\ level = "none" /\ lpc = "idle" /\ hEventSource = "NULL"
    /\ sourcesOpen = 0 /\ eventLog = <<>> /\ nMessages = 0
    /\ exitStatus = "none" /\ stderr = <<>> /\ stdout = <<>>
    /\ handles = {} /\ entered = {} /\ actionReturned = FALSE
    /\ osCalls = {} /\ osFailed = {}
    /\ spc = "none" /\ gSvcStatusHandle = FALSE
    /\ gSvcStatus = ZeroStatus /\ dwCheckPoint = 1 /\ reports = <<>>
    /\ ghSvcStopEvent = "NULL"
    /\ stopEvent = [state |-> "none", signaled |-> FALSE]
    /\ context = "NULL" /\ config = "none"
    /\ more = 1 /\ validate_dnssec = 0 /\ dnssec_validation = 0
    /\ listenFlag = 0 /\ lastWait = "none" /\ iterations = 0
    /\ failure = "none" /\ teardown = <<>>
    /\ hpc = "idle" /\ dwCtrl = "none" /\ nControls = 0 /\ setEvents = <<>>

Init ==
    /\ regKey = FALSE /\ regValues = NoValues
    /\ serviceRegistered = FALSE /\ serviceDescribed = FALSE
    /\ NoProcess

Next ==
    \/ Launch
    \/ windows_service_command
    \/ windows_service_command_ExitSuccess
    \/ SvcInstall_GetModuleFileName
    \/ createRegistryEntries_CreateKey
    \/ createRegistryEntries_SetValue
    \/ SvcInstall_OpenSCManager
    \/ SvcInstall_CreateService
    \/ SvcInstall_Describe
    \/ SvcRemove_OpenSCManager
    \/ SvcRemove_OpenService
    \/ SvcRemove_DeleteService
    \/ deleteRegistryEntries_OpenParent
    \/ deleteRegistryEntries_DeleteKey
    \/ SvcStart_OpenSCManager
    \/ SvcStart_OpenService
    \/ SvcStart_StartService
    \/ SvcStop_OpenSCManager
    \/ SvcStop_OpenService
    \/ SvcStop_ControlService
    \/ SvcService_StartDispatcher
    \/ SvcService_DispatcherReturns
    \/ SvcMain_Register
    \/ SvcMain_ReportStartPending
    \/ SvcInit_CreateEvent
    \/ SvcInit_CreateEventFailed
    \/ SvcInit_ReportContextCheckpoint
    \/ SvcInit_ContextCreate
    \/ SvcInit_ContextFailed_Report
    \/ SvcInit_ContextFailed_CloseHandle
    \/ SvcInit_ContextFailed_Return
    \/ SvcInit_InitConfig
    \/ SvcInit_ReportConfigCheckpoint
    \/ SvcInit_ReadConfig
    \/ SvcInit_ReadConfigFailed
    \/ SvcInit_ReportListenCheckpoint
    \/ SvcInit_ServerListen
    \/ SvcInit_ServerListenFailed
    \/ SvcInit_ReportEventloopCheckpoint
    \/ SvcInit_GetEventloop
    \/ SvcInit_GetEventloopFailed
    \/ SvcInit_ReportRunning
    \/ SvcInit_Poll
    \/ SvcInit_RunOnce
    \/ SvcInit_ReportStopped
    \/ SvcInit_DestroyContext
    \/ SvcInit_DeleteConfig
    \/ SvcInit_CloseHandle
    \/ SvcInit_Return
    \/ DeliverControl
    \/ SvcCtrlHandler_ReportStopPending
    \/ SvcCtrlHandler_SetEvent
    \/ SvcCtrlHandler_Other

Spec == Init /\ [][Next]_vars


\* The service process with the log functions installed: after SvcMain has
\* registered the control handler (created = FALSE), or after SvcInit has
\* created the stop event (created = TRUE), the machine being as Init has it.
ServiceStarting(created) ==
    /\ regKey = FALSE /\ regValues = NoValues
    /\ serviceRegistered = FALSE /\ serviceDescribed = FALSE
    /\ history = << [action |-> "service", status |-> "none", cleanBefore |-> TRUE] >>
    /\ arg = T_service /\ cpc = "dispatcher"
    /\ loglevel = 0 /\ startRequest = <<>> /\ lpszArgv = << SVCNAME >>
    /\ startedLevel = <<>> /\ getdns_logging = <<>>
    /\ exitStatus = "none" /\ stderr = <<>> /\ stdout = <<>>
    /\ handles = {} /\ entered = {"service"} /\ actionReturned = FALSE
    /\ osCalls = {"StartServiceCtrlDispatcher", "RegisterServiceCtrlHandler"}
                    \cup (IF created THEN {"CreateEvent"} ELSE {})
    /\ osFailed = {}
    /\ spc = (IF created THEN "L572" ELSE "L545")
    /\ gSvcStatusHandle = TRUE
    /\ LET first == StatusAfterReport(
                       [ZeroStatus EXCEPT !.dwServiceType = "SERVICE_WIN32_OWN_PROCESS"],
                       "SERVICE_START_PENDING", 0, 3000, 1)
       IN IF created
          THEN /\ gSvcStatus = first
               /\ dwCheckPoint = CounterAfter("SERVICE_START_PENDING", 1)
               /\ reports = << [status |-> first, by |-> "service"] >>
          ELSE /\ gSvcStatus = ZeroStatus /\ dwCheckPoint = 1 /\ reports = <<>>
    /\ ghSvcStopEvent = (IF created THEN "hEvent" ELSE "NULL")
    /\ stopEvent = [state |-> IF created THEN "open" ELSE "none", signaled |-> FALSE]
    /\ context = "NULL" /\ config = "none"
    /\ more = 1 /\ validate_dnssec = 0 /\ dnssec_validation = 0
    /\ listenFlag = 0 /\ lastWait = "none" /\ iterations = 0
    /\ failure = "none" /\ teardown = <<>>
    /\ hpc = "idle" /\ dwCtrl = "none" /\ nControls = 0 /\ setEvents = <<>>

\* The registry values once createRegistryEntries has written them all.
InstalledValues ==
    [n \in ValueNames |->
        RegistryValues[CHOOSE i \in 1..Len(RegistryValues) :
                           RegistryValues[i].name = n].value]

\* A machine on which the service has been installed before (SvcInstall has
\* run to its end), and no command has been run since.
InstalledInit ==
    /\ regKey = TRUE /\ regValues = InstalledValues
    /\ serviceRegistered = TRUE /\ serviceDescribed = TRUE
    /\ NoProcess

\* The commands run on a machine that has the service installed.
StartSpec == InstalledInit /\ [][Next]_vars

LogIdle ==
    /\ level = "none" /\ lpc = "idle" /\ hEventSource = "NULL"
    /\ sourcesOpen = 0 /\ eventLog = <<>> /\ nMessages = 0

\* The logger on its own: log callbacks arriving in a service that is
\* starting up.
LogInit == (\E created \in BOOLEAN : ServiceStarting(created)) /\ LogIdle

LogNext ==
    \/ report_vlog
    \/ report_verror_RegisterEventSource
    \/ report_verror_ReportEvent
    \/ report_verror_DeregisterEventSource

LogSpec == LogInit /\ [][LogNext]_vars


\* ------------------------------------------------------------------ claims
TeardownOps == {"getdns_context_destroy", "delete_config", "CloseHandle"}

Count(op) == Cardinality({i \in 1..Len(teardown) : teardown[i].op = op})

StateOf(i) == reports[i].status.dwCurrentState

Pending(i) == StateOf(i) \in {"SERVICE_START_PENDING", "SERVICE_STOP_PENDING"}

ReportedRunning == \E i \in 1..Len(reports) : StateOf(i) = "SERVICE_RUNNING"

\* The service thread has reported STOPPED after having reported RUNNING.
StoppedAfterRunning ==
    \E i, j \in 1..Len(reports) :
        /\ i < j
        /\ StateOf(i) = "SERVICE_RUNNING"
        /\ StateOf(j) = "SERVICE_STOPPED" /\ reports[j].by = "service"

\* C1: a poll of the run loop that finds the stop event signaled ends the
\* loop: the service thread leaves for the STOPPED report and the teardown,
\* however many run_once calls it has made.
C1_SignalEndsLoopAtNextPoll ==
    [][ (spc = "L607" /\ spc' # "L607" /\ cpc' = "dispatcher"
         /\ stopEvent.state = "open" /\ stopEvent.signaled)
        => spc' = "L628" ]_vars

\* C2: no teardown step is performed by the control handler, none is
\* performed twice, and once RUNNING has been reported a teardown step is
\* performed only after the run loop has observed the stop signal (or a
\* failed poll), never after a poll that found the event unsignaled.
C2_TeardownOnlyAfterStopObserved ==
    /\ \A i \in 1..Len(teardown) : teardown[i].by = "service"
    /\ \A op \in TeardownOps : Count(op) <= 1
    /\ (ReportedRunning /\ teardown # <<>>)
          => lastWait \in {"WAIT_OBJECT_0", "WAIT_FAILED"}

StartupFailureReported ==
    /\ reports # <<>>
    /\ StateOf(Len(reports)) = "SERVICE_STOPPED"
    /\ reports[Len(reports)].by = "service"
    /\ reports[Len(reports)].status.dwWin32ExitCode # 0

\* C3 as stated: after a startup failure at context creation, configuration
\* read, listener setup or event-loop retrieval, SvcInit has reported STOPPED
\* with a non-zero exit code and has run each step of the shared teardown
\* exactly once.
C3_SharedTeardownAtEveryCheckpoint ==
    (spc = "returned" /\ failure \in {"context", "config", "listen", "eventloop"})
       => /\ StartupFailureReported
          /\ \A op \in TeardownOps : Count(op) = 1

\* C3 as amended: a failure of configuration read, listener setup or
\* event-loop retrieval reports STOPPED with a non-zero exit code and runs
\* the shared teardown exactly once, in order; a failure of context creation
\* reports STOPPED with a non-zero exit code and only closes the stop handle;
\* no teardown step is ever performed twice.
C3_StartupFailureTeardown ==
    /\ \A op \in TeardownOps : Count(op) <= 1
    /\ (spc = "returned" /\ failure \in {"config", "listen", "eventloop"})
          => /\ StartupFailureReported
             /\ teardown = << [op |-> "getdns_context_destroy", by |-> "service"],
                              [op |-> "delete_config", by |-> "service"],
                              [op |-> "CloseHandle", by |-> "service"] >>
             /\ context = "destroyed" /\ config = "released"
             /\ stopEvent.state = "closed" /\ ghSvcStopEvent = "NULL"
    /\ (spc = "returned" /\ failure = "context")
          => /\ StartupFailureReported
             /\ teardown = << [op |-> "CloseHandle", by |-> "service"] >>
             /\ context = "NULL" /\ config = "none"
             /\ stopEvent.state = "closed" /\ ghSvcStopEvent = "NULL"

C3_Witness ==
    /\ spc = "returned" /\ failure = "context"
    /\ StartupFailureReported
    /\ Count("CloseHandle") = 1 /\ Count("getdns_context_destroy") = 0

\* C4: over the status reports of one service invocation, the checkpoint
\* strictly increases from each START_PENDING / STOP_PENDING report to every
\* later one, and a report carries checkpoint zero exactly when its state is
\* RUNNING or STOPPED.
C4_CheckpointCounter ==
    /\ \A i \in 1..Len(reports) :
          (StateOf(i) \in {"SERVICE_RUNNING", "SERVICE_STOPPED"})
             <=> (reports[i].status.dwCheckPoint = 0)
    /\ LET pending == {i \in 1..Len(reports) : Pending(i)}
       IN \A i \in pending : \A j \in pending :
             i < j => reports[i].status.dwCheckPoint < reports[j].status.dwCheckPoint

C4_Witness ==
    /\ Len(reports) >= 7
    /\ \A i \in 1..5 : StateOf(i) = "SERVICE_START_PENDING"
                       /\ reports[i].status.dwCheckPoint = i
    /\ StateOf(6) = "SERVICE_RUNNING" /\ reports[6].status.dwCheckPoint = 0
    /\ StateOf(7) = "SERVICE_STOP_PENDING" /\ reports[7].status.dwCheckPoint = 6

\* The command a token names, by folding the token to lower case.
Folded(a) == [i \in 1..Len(a) |-> CharLower(a[i])]

NamedCommandOf ==
    [a \in CommandTokens |->
        CASE Folded(a) = T_install -> "install"
          [] Folded(a) = T_remove  -> "remove"
          [] Folded(a) = T_service -> "service"
          [] Folded(a) = T_start   -> "start"
          [] Folded(a) = T_stop    -> "stop"
          [] OTHER -> "unknown"]

NamedCommand(a) == NamedCommandOf[a]

\* The OS calls each command function makes itself.
CallsOf(command) ==
    CASE command = "install" ->
           {"GetModuleFileName", "RegCreateKeyEx", "RegSetValueEx",
            "OpenSCManager", "CreateService", "ChangeServiceConfig2"}
      [] command = "remove" ->
           {"OpenSCManager", "OpenService", "DeleteService",
            "RegCreateKeyEx", "RegDeleteKey"}
      [] command = "service" -> {"StartServiceCtrlDispatcher"}
      [] command = "start" -> {"OpenSCManager", "OpenService", "StartService"}
      [] command = "stop" -> {"OpenSCManager", "OpenService", "ControlService"}
      [] OTHER -> {}

CommandOsCalls ==
    UNION {CallsOf(c) : c \in {"install", "remove", "service", "start", "stop"}}

\* The OS calls made on the service thread while the dispatcher runs.
ServiceThreadCalls ==
    {"RegisterServiceCtrlHandler", "CreateEvent", "WaitForSingleObject"}

\* C5: a token that is none of install, remove, service, start, stop
\* (ignoring case) makes the process exit with failure after one diagnostic
\* naming the token, with no command function entered and no OS call made;
\* a recognized token enters exactly the matching command function, makes
\* only that function's OS calls, and the process exits with success exactly
\* when that function has returned.
C5_CommandDispatch ==
    cpc \notin {"none", "L92"} =>
      LET named == NamedCommand(arg) IN
      IF named = "unknown"
      THEN /\ cpc = "exited" /\ exitStatus = "EXIT_FAILURE"
           /\ stderr = << [kind |-> "Unknown Windows option", text |-> arg,
                           detail |-> "token"] >>
           /\ entered = {} /\ osCalls = {} /\ ~actionReturned
      ELSE /\ entered = {named}
           /\ osCalls \subseteq CallsOf(named) \cup
                   (IF named = "service" THEN ServiceThreadCalls ELSE {})
           /\ cpc = "L108" => actionReturned
           /\ cpc = "exited" => (exitStatus = "EXIT_SUCCESS" <=> actionReturned)
           /\ cpc = "exited" => exitStatus \in {"EXIT_SUCCESS", "EXIT_FAILURE"}

C5_Witness ==
    /\ cpc = "exited" /\ exitStatus = "EXIT_SUCCESS"
    /\ arg = <<"I","N","S","T","A","L","L">>
    /\ entered = {"install"} /\ serviceRegistered

\* C6: when an OS call made by a command function has failed, the process
\* exits with failure and never gets to the success exit of
\* windows_service_command.
C6_OsFailureIsFatal ==
    (osFailed \cap CommandOsCalls # {})
       => /\ cpc # "L108"
          /\ cpc = "exited" => exitStatus = "EXIT_FAILURE"

\* C7: an install that succeeds on a machine with no event-log key and no
\* service registration, followed by a remove that succeeds, leaves the
\* machine with no event-log key, no value under it and no registration.
C7_InstallRemoveRoundTrip ==
    \A i \in 1..Len(history) :
       ( /\ i < Len(history)
         /\ history[i].action = "install" /\ history[i].status = "EXIT_SUCCESS"
         /\ history[i].cleanBefore
         /\ history[i+1].action = "remove" /\ history[i+1].status = "EXIT_SUCCESS" )
       => IF i + 1 < Len(history) THEN history[i+2].cleanBefore ELSE Clean

C7_Witness ==
    /\ Len(history) >= 2
    /\ history[1].action = "install" /\ history[1].status = "EXIT_SUCCESS"
    /\ history[2].action = "remove" /\ history[2].status = "EXIT_SUCCESS"
    /\ cpc = "exited" /\ Clean

AllValuesPresent == \A n \in ValueNames : regValues[n] # NoValue

\* C8 as stated: where an install or remove command has terminated, the
\* event-log key exists only if the service is registered.
C8_NoOrphanedEventLogEntry ==
    (cpc = "exited" /\ entered \cap {"install", "remove"} # {})
       => (regKey => serviceRegistered)

\* C8 as amended: install creates the event-log key before the service
\* entry and remove deletes the service entry before the event-log key, so
\* the service is registered only while the event-log key with its four
\* values exists, in particular wherever an install or remove terminates.
C8_ServiceImpliesEventLogEntry ==
    /\ serviceRegistered => (regKey /\ AllValuesPresent)
    /\ ("install" \in entered /\ "CreateService" \in osCalls)
          => "RegCreateKeyEx" \in osCalls
    /\ ("remove" \in entered /\ "RegDeleteKey" \in osCalls)
          => ("DeleteService" \in osCalls /\ ~serviceRegistered)

C8_Witness ==
    /\ cpc = "exited" /\ entered = {"install"} /\ exitStatus = "EXIT_SUCCESS"
    /\ serviceRegistered /\ regKey /\ AllValuesPresent

\* C9: a poll of the run loop that succeeds and finds the event unsignaled
\* is followed by one run_once and then the next poll; the loop is left only
\* after a poll that failed or found the event signaled, and no run_once
\* follows a poll that found the event signaled.
C9_RunLoopStep ==
    [][ /\ (spc = "L607" /\ spc' # "L607" /\ cpc' = "dispatcher")
           => /\ (lastWait' # "WAIT_FAILED" /\ ~stopEvent.signaled)
                    => spc' = "L626"
              /\ spc' = "L628" => (lastWait' = "WAIT_FAILED" \/ stopEvent.signaled)
              /\ stopEvent.signaled => spc' # "L626"
        /\ (spc = "L626" /\ spc' # "L626" /\ cpc' = "dispatcher")
           => (spc' = "L607" /\ iterations' = iterations + 1) ]_vars

\* C10: when the service thread has reported STOPPED after the run loop,
\* the context has been destroyed, the configuration released and the stop
\* handle closed.
C10_TornDownBeforeStopped ==
    StoppedAfterRunning
       => /\ context # "live"
          /\ config # "init"
          /\ stopEvent.state # "open"

StartupFailures == {"stop_event", "context", "config", "listen", "eventloop"}

\* The edge from the i-th reported state to the next one is an edge of the
\* lifecycle START_PENDING -> RUNNING -> STOP_PENDING -> STOPPED, a repeated
\* START_PENDING, or the startup failure edge START_PENDING -> STOPPED.
PermittedEdge(i) ==
    LET a == StateOf(i)
        b == StateOf(i + 1)
    IN \/ a = "SERVICE_START_PENDING" /\ b = "SERVICE_START_PENDING"
       \/ a = "SERVICE_START_PENDING" /\ b = "SERVICE_RUNNING"
       \/ a = "SERVICE_RUNNING" /\ b = "SERVICE_STOP_PENDING"
       \/ a = "SERVICE_STOP_PENDING" /\ b = "SERVICE_STOPPED"
       \/ /\ a = "SERVICE_START_PENDING" /\ b = "SERVICE_STOPPED"
          /\ reports[i + 1].status.dwWin32ExitCode # 0
          /\ failure \in StartupFailures

\* C11: every two consecutive states reported for one service invocation
\* form a permitted edge: a repeated START_PENDING, an edge of
\* START_PENDING -> RUNNING -> STOP_PENDING -> STOPPED, or
\* START_PENDING -> STOPPED with a non-zero exit code at a startup failure.
C11_LifecycleEdges ==
    \A i \in 1..(Len(reports) - 1) : PermittedEdge(i)

\* CreateEvent has succeeded in this service invocation.
StopEventCreated == "CreateEvent" \in (osCalls \ osFailed)

HandlerFrame ==
    <<persistVars, cmdVars, startVars, logVars, spc, gSvcStatusHandle,
      ghSvcStopEvent, engineVars, loopVars, failure, teardown>>

\* C13: a call of SvcCtrlHandler with a control code other than STOP returns
\* leaving the status record, the checkpoint counter and the stop event as
\* they were; a call with STOP makes one STOP_PENDING report (exit code 0,
\* wait hint 0), then one SetEvent on the global stop handle, and returns;
\* neither call changes anything else, and no step of the handler waits: in
\* every state inside the handler its next step can be taken.
C13_HandlerEffects ==
    /\ [][ (hpc = "switch" /\ hpc' # "switch" /\ dwCtrl # "SERVICE_CONTROL_STOP")
              => /\ hpc' = "idle"
                 /\ UNCHANGED <<statusVars, stopEvent, setEvents, HandlerFrame>> ]_vars
    /\ [][ (hpc = "switch" /\ hpc' # "switch" /\ dwCtrl = "SERVICE_CONTROL_STOP")
              => /\ hpc' = "L665"
                 /\ Len(reports') = Len(reports) + 1
                 /\ reports'[Len(reports')].by = "handler"
                 /\ reports'[Len(reports')].status = gSvcStatus'
                 /\ gSvcStatus' = [gSvcStatus EXCEPT
                        !.dwCurrentState = "SERVICE_STOP_PENDING",
                        !.dwWin32ExitCode = 0,
                        !.dwWaitHint = 0,
                        !.dwControlsAccepted = {"SERVICE_ACCEPT_STOP"},
                        !.dwCheckPoint = dwCheckPoint]
                 /\ dwCheckPoint' = dwCheckPoint + 1
                 /\ UNCHANGED <<stopEvent, setEvents, HandlerFrame>> ]_vars
    /\ [][ (hpc = "L665" /\ hpc' # "L665")
              => /\ hpc' = "idle"
                 /\ setEvents' = Append(setEvents, [handle |-> ghSvcStopEvent,
                                                    object |-> stopEvent.state])
                 /\ stopEvent' \in {stopEvent, [stopEvent EXCEPT !.signaled = TRUE]}
                 /\ (ghSvcStopEvent = "hEvent" /\ stopEvent.state = "open")
                        => stopEvent'.signaled
                 /\ UNCHANGED <<statusVars, HandlerFrame>> ]_vars
    /\ [][ (hpc' # hpc /\ hpc = "idle" /\ cpc' = "dispatcher")
              => UNCHANGED <<statusVars, stopEvent, setEvents, HandlerFrame>> ]_vars
    /\ [](hpc = "switch"
              => ENABLED (SvcCtrlHandler_ReportStopPending \/ SvcCtrlHandler_Other))
    /\ [](hpc = "L665" => ENABLED SvcCtrlHandler_SetEvent)

C13_Witness ==
    /\ hpc = "idle" /\ nControls = 2 /\ Len(setEvents) = 1
    /\ \E i \in 1..Len(reports) :
          /\ reports[i].by = "handler"
          /\ StateOf(i) = "SERVICE_STOP_PENDING"
          /\ \A j \in 1..Len(reports) : reports[j].by = "handler" => j = i
    /\ stopEvent.signaled

\* The reports of the startup sequence: the START_PENDING reports made
\* before RUNNING or STOPPED is reported.
StartupReports ==
    LET started == {i \in 1..Len(reports) : StateOf(i) # "SERVICE_START_PENDING"}
    IN {i \in 1..Len(reports) : \A j \in started : i < j}

WaitHintOf(i) == reports[i].status.dwWaitHint

\* C14 as stated: from each START_PENDING report of a startup sequence to
\* the next, the first report in SvcMain included, the wait hint increases.
C14_WaitHintIncreases ==
    LET startup == StartupReports
    IN \A i \in startup :
          (i + 1) \in startup => WaitHintOf(i) < WaitHintOf(i + 1)

\* C14 as amended: the START_PENDING reports of a startup sequence carry, in
\* order, the wait hints 3000 (SvcMain), 1000, 1010, 1020, 1030 (the four
\* checkpoints of SvcInit): the wait hint increases from each checkpoint of
\* SvcInit to the next, and the first report carries the largest one.
C14_SvcInitWaitHintIncreases ==
    LET startup == StartupReports
    IN /\ \A i \in startup :
             /\ i \in 1..5
             /\ WaitHintOf(i) = <<3000, 1000, 1010, 1020, 1030>>[i]
       /\ \A i \in startup :
             (i >= 2 /\ (i + 1) \in startup)
                => WaitHintOf(i) < WaitHintOf(i + 1)
       /\ \A i \in startup : i >= 2 => WaitHintOf(i) < WaitHintOf(1)

C14_Witness ==
    /\ StartupReports = 1..5
    /\ Len(reports) >= 6 /\ StateOf(6) = "SERVICE_RUNNING"
    /\ WaitHintOf(2) < WaitHintOf(5)

\* The event class the severities are to be reported in.
ClassOfSeverity(l) ==
    IF l \in {"GETDNS_LOG_EMERG", "GETDNS_LOG_ALERT", "GETDNS_LOG_CRIT",
              "GETDNS_LOG_ERR"}
    THEN "EVENTLOG_ERROR_TYPE"
    ELSE IF l \in {"GETDNS_LOG_WARNING", "GETDNS_LOG_NOTICE"}
    THEN "EVENTLOG_WARNING_TYPE"
    ELSE "EVENTLOG_INFORMATION_TYPE"

\* C15: every record report_verror writes is of the error class for
\* emergency, alert, critical and error, of the warning class for warning
\* and notice, and of the information class for info, debug and any other
\* value; two records of different severities (of the eight) carry different
\* event identifiers, two records of the same severity the same one.
C15_SeverityMapping ==
    /\ \A i \in 1..Len(eventLog) :
          /\ eventLog[i].wType = ClassOfSeverity(eventLog[i].level)
          /\ eventLog[i].wType \in {"EVENTLOG_ERROR_TYPE", "EVENTLOG_WARNING_TYPE",
                                    "EVENTLOG_INFORMATION_TYPE"}
    /\ \A i \in 1..Len(eventLog) : \A j \in 1..Len(eventLog) :
          (eventLog[i].level \in Severities /\ eventLog[j].level \in Severities)
             => ((eventLog[i].level = eventLog[j].level)
                    <=> (eventLog[i].dwEventID = eventLog[j].dwEventID))

C15_Witness ==
    /\ Len(eventLog) = 2
    /\ eventLog[1].level = "GETDNS_LOG_CRIT"
    /\ eventLog[2].level = "GETDNS_LOG_ERR"
    /\ eventLog[1].wType = "EVENTLOG_ERROR_TYPE"
    /\ eventLog[1].dwEventID # eventLog[2].dwEventID

\* C16: when RegisterEventSource fails, report_verror returns at once: no
\* record is written, no source is left registered, and nothing outside the
\* logger changes (the process goes on, the status record and the stop event
\* stay as they were); a record is written only through a registered source,
\* which is deregistered before report_verror returns.
C16_RegistrationFailureDropsMessage ==
    /\ [][ (lpc = "L119" /\ lpc' = "idle")
              => /\ hEventSource' = "NULL"
                 /\ UNCHANGED <<eventLog, sourcesOpen, LoggerFrame>> ]_vars
    /\ [][ (lpc # "idle" /\ lpc' # lpc)
              => UNCHANGED <<cpc, exitStatus, stderr, gSvcStatus, dwCheckPoint,
                             reports, ghSvcStopEvent, stopEvent>> ]_vars
    /\ [][ (eventLog' # eventLog)
              => /\ hEventSource = "hSource" /\ sourcesOpen = 1
                 /\ Len(eventLog') = Len(eventLog) + 1
                 /\ lpc' = "L182" ]_vars
    /\ [](lpc = "L182" => ENABLED report_verror_DeregisterEventSource)
    /\ [](lpc = "idle" => sourcesOpen = 0)
    /\ [](Len(eventLog) <= nMessages)

C16_Witness ==
    /\ nMessages = 2 /\ lpc = "idle"
    /\ Len(eventLog) = 1
    /\ hEventSource = "NULL"
    /\ cpc = "dispatcher" /\ exitStatus = "none"
    /\ stopEvent = [state |-> "open", signaled |-> FALSE]
    /\ gSvcStatus.dwCurrentState = "SERVICE_START_PENDING"

\* The start command has issued its start request and returned.
StartIssued ==
    /\ cpc \in {"L108", "exited"}
    /\ entered = {"start"} /\ actionReturned
    /\ startRequest # <<>>

Digits == CharZero..(CharZero + 9)

\* The start request carries the service name and one decimal digit that
\* stands for the log level l.
DigitRequest(request, l) ==
    /\ Len(request.args) = 2
    /\ request.args[1] = SVCNAME
    /\ Len(request.args[2]) = 1
    /\ request.args[2][1] \in Digits
    /\ request.args[2][1] - CharZero = l

\* SvcInit has got past its use of the arguments.
ArgumentsUsed == config # "none"

C18_NoSetEventOnDeadHandle ==
    \A i \in 1..Len(setEvents) :
        setEvents[i].handle = "hEvent" /\ setEvents[i].object = "open"

\* C19: once STOPPED has been reported, it is the last report of the service
\* invocation and the status record stays as that report left it, exit code
\* included.
C19_StoppedIsFinal ==
    \A i \in 1..Len(reports) :
        StateOf(i) = "SERVICE_STOPPED"
           => (i = Len(reports) /\ gSvcStatus = reports[i].status)

\* C20: every status report advertises no accepted control when its state
\* is START_PENDING and STOP as the accepted control in every other state;
\* the service manager sending STOP only where the last report advertises
\* it, a STOP_PENDING report and a SetEvent come only after RUNNING (or
\* STOPPED) has been reported, and the control handler is not inside a STOP
\* request before that.
C20_StopOnlyAfterRunning ==
    /\ \A i \in 1..Len(reports) :
          reports[i].status.dwControlsAccepted =
             (IF StateOf(i) = "SERVICE_START_PENDING"
              THEN {} ELSE {"SERVICE_ACCEPT_STOP"})
    /\ reports # <<>> => gSvcStatus = reports[Len(reports)].status
    /\ \A j \in 1..Len(reports) :
          StateOf(j) = "SERVICE_STOP_PENDING"
             => \E i \in 1..(j - 1) :
                   StateOf(i) \in {"SERVICE_RUNNING", "SERVICE_STOPPED"}
    /\ (setEvents # <<>> \/ stopEvent.signaled \/ dwCtrl = "SERVICE_CONTROL_STOP")
          => \E i \in 1..Len(reports) :
                StateOf(i) \in {"SERVICE_RUNNING", "SERVICE_STOPPED"}

C20_Witness ==
    /\ Len(reports) >= 7
    /\ StateOf(6) = "SERVICE_RUNNING"
    /\ StateOf(7) = "SERVICE_STOP_PENDING" /\ reports[7].by = "handler"
    /\ reports[5].status.dwControlsAccepted = {}
    /\ reports[7].status.dwControlsAccepted = {"SERVICE_ACCEPT_STOP"}
    /\ stopEvent.signaled /\ Len(setEvents) = 1

\* SvcInit has been entered (its first statement is the CreateEvent call)
\* and the service thread has returned from it.
SvcInitReturned == spc = "returned" /\ "CreateEvent" \in osCalls

\* The reports made by the service thread, as indices into `reports`.
ServiceReports == {i \in 1..Len(reports) : reports[i].by = "service"}

\* C21: whichever way SvcInit is left (after the run loop or after a startup
\* failure), the last status the service thread has reported when it returns
\* is STOPPED, the global handle is NULL, and CloseHandle has been called on
\* the stop event exactly once when the event was created and not at all
\* when its creation failed; at no point has it been called twice, or on an
\* event that was never created.
C21_SvcInitLeavesStoppedAndClosed ==
    LET mine == ServiceReports
        closes == Count("CloseHandle")
        created == stopEvent.state # "none"
    IN  /\ closes <= (IF created THEN 1 ELSE 0)
        /\ closes = 1 <=> stopEvent.state = "closed"
        /\ "CreateEvent" \in osFailed => ~created
        /\ SvcInitReturned =>
              /\ mine # {}
              /\ \E last \in mine :
                    /\ \A i \in mine : i <= last
                    /\ StateOf(last) = "SERVICE_STOPPED"
              /\ ghSvcStopEvent = "NULL"
              /\ closes = (IF created THEN 1 ELSE 0)

\* SvcInit has returned after a stop request whose STOP_PENDING report came
\* after the service thread's STOPPED report: the event was created and
\* closed once.
C21_Witness ==
    /\ SvcInitReturned
    /\ stopEvent.state = "closed" /\ Count("CloseHandle") = 1
    /\ ghSvcStopEvent = "NULL"
    /\ ReportedRunning
    /\ reports[Len(reports)].by = "handler"


\* The service thread has just come back from server_listen (to the failure
\* branch or to the next checkpoint) in a startup whose read_config
\* succeeded.
ListenCalled == spc \in {"L592", "L596"}

\* C22: the dnssec-validation flag server_listen is called with is the value
\* read_config produced in the same startup, whichever value that is.
C22_ListenFlagIsConfigValue ==
    ListenCalled => listenFlag = validate_dnssec


====
